---- MODULE Spec2Model ----
(***************************************************************************)
(* Transaction submission and confirmation of candy-machine-ui.            *)
(*                                                                         *)
(* sendSignedTransaction / awaitTransactionSignatureConfirmation /         *)
(* simulateTransaction are modelled from src/src/common/connection.tsx,    *)
(* sendTransactions from src/unnamed/part_002 (lines 737-841).             *)
(*                                                                         *)
(* JavaScript is single threaded: one action of the model is one run of    *)
(* the event loop, i.e. one callback (timer, websocket notification, RPC   *)
(* response) together with the micro-tasks (promise continuations) that    *)
(* it makes runnable.  Time is counted in milliseconds.                    *)
(***************************************************************************)
EXTENDS Integers, Sequences, FiniteSets, TLC

\* ---------------------------------------------------------------- bounds
\* the clock advances MaxTicks times at most
MaxTicks == 4
\* a simulation log holds MaxLogs lines at most
MaxLogs == 2
\* the wallet hands back MaxTx signed transactions at most
MaxTx == 3

\* ------------------------------------------------------ program constants
DEFAULT_TIMEOUT == 60000
ResendInterval == 500
PollInterval == 2000
\* getUnixTs() is new Date().getTime() / 1000
MsPerSecond == 1000
\* `confirmations: number | null`: null is written -1
NullConf == 0 - 1

\* ------------------------------------------------------ collaborator data
\* timeouts a caller of sendSignedTransaction passes
Timeouts == {2 * ResendInterval, 4 * ResendInterval}
\* the ids sendRawTransaction gives: the first call, any call
FirstIds == {"sigA"}
TxIds == {"sigA", "sigB"}
NoTx == "none"
Slots == {7, 9}
\* context.slot of a websocket notification, slot of a polled status
PushSlots == {7}
PollSlots == {9}
\* the error a confirmation source reports, the errors a simulation reports
Errs == {"errA"}
SimErrs == {"errS"}
NoErr == "null"
Confs == {NullConf, 0, 1}
Blockhashes == {"bh0", "bh1"}
\* the blockhash of a `block` passed by the caller
CallerBlock == "bh0"

Marker == <<"Program log: ">>
FailedPrefix == <<"Transaction failed: ">>
TimeoutMessage == <<"Timed out awaiting confirmation on transaction">>
SendErrorMessage == <<"sendRawTransaction failed">>

\* log lines: a line is a sequence of tokens
LogLines ==
  { Marker \o <<"a">>, Marker \o <<"b">>, <<"a">> \o Marker }

SeqsUpTo(S, n) == UNION { [1..k -> S] : k \in 0..n }

\* --------------------------------------------------------- string helpers
\* String.prototype.startsWith
StartsWith(line, prefix) ==
  /\ Len(line) >= Len(prefix)
  /\ SubSeq(line, 1, Len(prefix)) = prefix

\* String.prototype.slice(n)
Slice(line, n) == SubSeq(line, n + 1, Len(line))

\* JSON.stringify(err)
JsonStringify(err) == <<"json", err>>

\* ------------------------------------------------------------- statuses
\* SignatureStatus {slot, confirmations, err}
Status(slot, confirmations, err) ==
  [null |-> FALSE, slot |-> slot, confirmations |-> confirmations,
   err |-> err]

\* value[0] of a signature the cluster does not know
NullStatus ==
  [null |-> TRUE, slot |-> 0, confirmations |-> NullConf, err |-> NoErr]

\* let status = {slot: 0, confirmations: 0, err: null}
InitialStatus == Status(0, 0, NoErr)

\* what getSignatureStatuses([txid]) answers: it throws, or value[0] is null,
\* or value[0] is a status
PollResponses ==
  { [kind |-> "throw", st |-> InitialStatus],
    [kind |-> "status", st |-> NullStatus] }
  \cup { [kind |-> "status", st |-> Status(s, n, NoErr)] :
           s \in PollSlots, n \in Confs }
  \cup { [kind |-> "status", st |-> Status(s, 0, e)] :
           s \in PollSlots, e \in Errs }

\* what the simulateTransaction RPC request answers: response.error is set
\* (simulateTransaction throws), or response.result.value = {err, logs}
SimResponses ==
  { [kind |-> "throw", err |-> "rpc", hasLogs |-> FALSE, logs |-> <<>>] }
  \cup { [kind |-> "ok", err |-> e, hasLogs |-> FALSE, logs |-> <<>>] :
           e \in SimErrs \cup {NoErr} }
  \cup { [kind |-> "ok", err |-> e, hasLogs |-> TRUE, logs |-> l] :
           e \in SimErrs \cup {NoErr}, l \in SeqsUpTo(LogLines, MaxLogs) }

\* ------------------------------------------------------ promises, results
PendingPromise ==
  [state |-> "pending", value |-> InitialStatus,
   timeout |-> FALSE, err |-> NoErr]
\* resolve(status)
Fulfilled(st) ==
  [state |-> "fulfilled", value |-> st, timeout |-> FALSE, err |-> NoErr]
\* reject({timeout: true})
RejectedTimeout ==
  [state |-> "rejected", value |-> InitialStatus,
   timeout |-> TRUE, err |-> NoErr]
\* reject(status) of the websocket branch, reject(status.err) of the REST
\* branch: neither value has a `timeout` property
RejectedErr(e) ==
  [state |-> "rejected", value |-> InitialStatus,
   timeout |-> FALSE, err |-> e]

NoResult == [kind |-> "pending", txid |-> NoTx, slot |-> 0, message |-> <<>>]
\* return { txid, slot }
Resolved(id, slot) ==
  [kind |-> "resolved", txid |-> id, slot |-> slot, message |-> <<>>]
\* throw new Error(message)
Rejected(msg) ==
  [kind |-> "rejected", txid |-> NoTx, slot |-> 0, message |-> msg]

\* simulateTransaction threw (or was not called)
NoSim == [kind |-> "throw", err |-> NoErr, hasLogs |-> FALSE, logs |-> <<>>]

NoEvent == [src |-> "none", slot |-> 0, err |-> NoErr]
Event(src, slot, err) == [src |-> src, slot |-> slot, err |-> err]

\* ------------------------------------------------------------------ state
VARIABLES
  now,     \* the wall clock, in milliseconds
  ticks,   \* how many times the clock has advanced
  calls,   \* one record per call of sendSignedTransaction
  batch,   \* the call of sendTransactions
  single   \* the call of sendTransaction

vars == <<now, ticks, calls, batch, single>>

Calls == 1..MaxTx

\* a call of sendSignedTransaction that has not been made yet
IdleCall ==
  [ pc          |-> "idle",
    timeout     |-> 0,            \* the `timeout` argument
    startTime   |-> 0,            \* when getUnixTs() was read (line 197)
    txid        |-> NoTx,         \* const txid (line 199)
    blockhash   |-> "bh0",        \* signedTransaction.recentBlockhash
    sstDone     |-> FALSE,        \* let done (line 208)
    resendAlive |-> FALSE,        \* the re-broadcast loop (lines 209-214)
    resendAt    |-> 0,            \* when its sleep(500) ends
    atscDone    |-> FALSE,        \* let done (line 62)
    status      |-> InitialStatus,\* let status (line 63)
    subscribed  |-> FALSE,        \* connection._signatureSubscriptions[subId]
    timerArmed  |-> FALSE,        \* the setTimeout of line 71
    timerAt     |-> 0,
    pollAlive   |-> FALSE,        \* the while loop of line 100
    pollAt      |-> 0,            \* when its sleep(2000) ends
    inflight    |-> 0,            \* getSignatureStatuses calls not answered
    promise     |-> PendingPromise,\* the promise of line 70
    result      |-> NoResult,     \* how sendSignedTransaction settled
    \* history, for stating the properties
    firstId     |-> NoTx,         \* what the first sendRawTransaction gave
    endEvent    |-> NoEvent,      \* the event that settled the promise
    decisive    |-> FALSE,        \* a source reported success or an error
    subThrew    |-> FALSE,        \* onSignature threw
    simCalls    |-> 0,            \* simulateTransaction calls issued
    simSeen     |-> NoSim ]       \* what the simulation answered

\* `block` is undefined
NoBlock == "undefined"

\* SequenceType
Policies == {"Sequential", "Parallel", "StopOnFailure"}

\* sendTransactions before it is called
IdleBatch ==
  [ pc        |-> "idle",
    policy    |-> "Parallel",   \* sequenceType
    groups    |-> <<>>,         \* instructions: the length of each group
    nBefore   |-> 0,            \* beforeTransactions.length
    nAfter    |-> 0,            \* afterTransactions.length
    fetches   |-> 0,            \* getLatestBlockhash calls issued
    unsigned  |-> 0,            \* unsignedTxns.length
    toSign    |-> 0,            \* partiallySignedTransactions.length
    fromWallet|-> 0,            \* what signAllTransactions gave back
    signed    |-> 0,            \* signedTxns.length
    i         |-> 0,            \* the loop index of line 808
    pending   |-> <<>>,         \* pendingTxns, as indices into signedTxns
    callbacks |-> <<>>,         \* the callbacks invoked so far
    number    |-> 0,            \* the result
    txs       |-> <<>>,
    message   |-> <<>>,         \* the error of a rejected call
    \* history, for stating the properties
    hasKey    |-> TRUE,         \* wallet.publicKey was set
    signCalls |-> 0,            \* signAllTransactions calls issued
    hasBlock  |-> FALSE,        \* the caller passed `block`
    block     |-> NoBlock,      \* block.blockhash (lines 745, 757)
    hashes    |-> {} ]          \* recentBlockhash of the transactions built

\* sendTransaction before it is called
IdleSingle ==
  [ pc         |-> "idle",
    isTx       |-> FALSE,       \* instructions instanceof Transaction
    hasBlock   |-> FALSE,       \* the caller passed `block`
    feePayer   |-> FALSE,       \* includesFeePayer
    confirm    |-> FALSE,       \* awaitConfirmation
    txid       |-> NoTx,        \* const txid (line 693)
    atscDone   |-> FALSE,       \* let done (line 426)
    subscribed |-> FALSE,       \* connection._signatureSubscriptions[subId]
    timerArmed |-> FALSE,       \* the setTimeout of line 435
    timerAt    |-> 0,
    promise    |-> "pending",   \* the promise of line 434
    result     |-> NoResult,    \* how sendTransaction settled
    \* history, for stating the properties
    hasKey     |-> TRUE,        \* wallet.publicKey was set
    subThrew   |-> FALSE,       \* onSignature threw
    rpcCalls   |-> 0,           \* calls made on `connection`
    signCalls  |-> 0,           \* wallet.signTransaction calls issued
    submits    |-> 0,           \* sendRawTransaction calls issued
    polls      |-> 0 ]          \* getSignatureStatuses calls issued

Init ==
  /\ now = 0
  /\ ticks = 0
  /\ calls = [c \in Calls |-> IdleCall]
  /\ batch = IdleBatch
  /\ single = IdleSingle

\* ------------------------------------------- sendSignedTransaction, part 1
\* while (!done && getUnixTs() - startTime < timeout): getUnixTs() is in
\* seconds, timeout in milliseconds
ResendGuard(done, nowMs, startMs, timeout) ==
  /\ ~done
  /\ (nowMs - startMs) < timeout * MsPerSecond

\* connection.sendRawTransaction(...) of line 211: the id it gives is dropped
TxidAfterResend(txid, id) == txid

\* slot = confirmation?.slot || 0
SlotOrZero(slot) == IF slot = 0 THEN 0 ELSE slot

\* the last line of the log that starts with the marker, 0 when there is none
\* (for (let i = logs.length - 1; i >= 0; i -= 1))
RECURSIVE ScanFrom(_, _)
ScanFrom(logs, i) ==
  IF i = 0 THEN 0
  ELSE IF StartsWith(logs[i], Marker) THEN i
  ELSE ScanFrom(logs, i - 1)

\* a slip of line 253: the log is scanned from its first line
AfterSimulate_FromStart(r, resp) ==
  LET marked == IF resp.hasLogs
                THEN { i \in 1..Len(resp.logs) :
                         StartsWith(resp.logs[i], Marker) }
                ELSE {}
      idx == IF marked = {} THEN 0
             ELSE CHOOSE i \in marked : \A j \in marked : i <= j
      res ==
        IF resp.kind = "ok" /\ resp.err # NoErr
        THEN IF idx # 0
             THEN Rejected(FailedPrefix \o Slice(resp.logs[idx], Len(Marker)))
             ELSE Rejected(JsonStringify(resp.err))
        ELSE Resolved(r.txid, 0)
  IN [r EXCEPT !.sstDone = TRUE,
               !.result = res,
               !.pc = res.kind]

\* lines 251-266: what sendSignedTransaction does with the simulation result
\* (simulateResult is null when simulateTransaction threw)
AfterSimulate(r, resp) ==
  LET idx == IF resp.hasLogs THEN ScanFrom(resp.logs, Len(resp.logs)) ELSE 0
      res ==
        IF resp.kind = "ok" /\ resp.err # NoErr
        THEN IF idx # 0
             THEN Rejected(FailedPrefix \o Slice(resp.logs[idx], Len(Marker)))
             ELSE Rejected(JsonStringify(resp.err))
        ELSE Resolved(r.txid, 0)
  IN [r EXCEPT !.sstDone = TRUE,
               !.result = res,
               !.pc = res.kind]

\* a slip of lines 238-240: the test of error.timeout is missing
AfterReject_NoTimeoutTest(r, timedOut) ==
  [r EXCEPT !.pc = "simBlockhash",
            !.simCalls = @ + 1]

\* lines 235-249: the catch block up to the call of simulateTransaction
AfterReject(r, timedOut) ==
  IF timedOut
  THEN [r EXCEPT !.sstDone = TRUE,
                 !.result = Rejected(TimeoutMessage),
                 !.pc = "rejected"]
  ELSE [r EXCEPT !.pc = "simBlockhash",
                 !.simCalls = @ + 1]

\* lines 132-140 and 225-234, 264-269: the promise was fulfilled with st
AfterFulfil(r, st) ==
  LET r1 == [r EXCEPT !.status = st,
                      !.subscribed = FALSE,
                      !.atscDone = TRUE]
  IN IF st.null \/ st.err # NoErr
     THEN AfterReject(r1, FALSE)
     ELSE [r1 EXCEPT !.sstDone = TRUE,
                     !.result = Resolved(r.txid, SlotOrZero(st.slot)),
                     !.pc = "resolved"]

\* resolve(...) or reject(...) of the promise of line 70: only the first call
\* settles it; the continuations of awaitTransactionSignatureConfirmation and
\* of sendSignedTransaction then run as micro-tasks
Settle(r, p, ev) ==
  IF r.promise.state # "pending" THEN r
  ELSE LET r1 == [r EXCEPT !.promise = p, !.endEvent = ev]
       IN IF p.state = "fulfilled"
          THEN AfterFulfil(r1, p.value)
          ELSE AfterReject(r1, p.timeout)

\* a slip of line 208: `done` is declared outside the function and shared
\* by all calls
SetCall_SharedDone(c, r) ==
  calls' = [d \in Calls |->
              IF d = c THEN r
              ELSE [calls[d] EXCEPT !.sstDone = @ \/ r.sstDone]]

SetCall(c, r) == calls' = [calls EXCEPT ![c] = r]

\* the call has resolved or rejected
Settled(c) == calls[c].result.kind # "pending"

\* ------------------------------------------- sendSignedTransaction, part 2
\* a slip of lines 199-214: the re-broadcast loop is started before the
\* first sendRawTransaction has answered
StartCall_LoopFirst(r, t, nowMs) ==
  [r EXCEPT !.pc = "sending", !.timeout = t, !.startTime = nowMs,
            !.resendAlive = TRUE, !.resendAt = nowMs + ResendInterval]

\* lines 195-204: serialize, read the clock, issue the first
\* sendRawTransaction
StartCall(r, t, nowMs) ==
  [r EXCEPT !.pc = "sending", !.timeout = t, !.startTime = nowMs]

SendSignedTransaction(c, t) ==
  /\ calls[c].pc = "idle"
  /\ SetCall(c, StartCall(calls[c], t, now))

\* the caller of the single-call specification
Submit ==
  /\ batch.pc = "idle"
  /\ single.pc = "idle"
  /\ \E t \in Timeouts : SendSignedTransaction(1, t)
  /\ UNCHANGED <<now, ticks, batch, single>>

\* line 199: the first sendRawTransaction throws, sendSignedTransaction
\* rejects with that error
FirstSendFails(c) ==
  /\ calls[c].pc = "sending"
  /\ SetCall(c, [calls[c] EXCEPT !.pc = "rejected",
                                 !.result = Rejected(SendErrorMessage)])
  /\ UNCHANGED <<now, ticks, batch, single>>

\* lines 209-213, first pass of the re-broadcast loop
StartResend(r, t) ==
  IF ResendGuard(r.sstDone, t, r.startTime, r.timeout)
  THEN [r EXCEPT !.resendAlive = TRUE,
                 !.resendAt = t + ResendInterval]
  ELSE r

\* lines 70-98: arm the timer, register the websocket subscription
\* (subOk = FALSE: connection.onSignature throws)
StartWait(r, t, subOk) ==
  [r EXCEPT !.atscDone = ~subOk,
            !.status = InitialStatus,
            !.timerArmed = TRUE,
            !.timerAt = t + r.timeout,
            !.subscribed = subOk,
            !.subThrew = ~subOk]

\* a slip of line 100: the loop does not test done
PollPass_NoDoneTest(r, t) ==
  [r EXCEPT !.pollAlive = TRUE,
            !.pollAt = t + PollInterval,
            !.inflight = @ + 1]

\* lines 100-129, one pass of the REST loop (queryStatus is true)
PollPass(r, t) ==
  IF ~r.atscDone
  THEN [r EXCEPT !.pollAlive = TRUE,
                 !.pollAt = t + PollInterval,
                 !.inflight = @ + 1]
  ELSE [r EXCEPT !.pollAlive = FALSE, !.pollAt = 0]

\* lines 199-217 and 70-129: the first sendRawTransaction gives id; the
\* re-broadcast loop starts, then the confirmation wait
FirstSendReturns(c, id, subOk) ==
  /\ calls[c].pc = "sending"
  /\ LET r0 == [calls[c] EXCEPT !.txid = id,
                                !.firstId = id,
                                !.sstDone = FALSE,
                                !.pc = "waiting"]
         r1 == StartResend(r0, now)
         r2 == StartWait(r1, now, subOk)
     IN SetCall(c, PollPass(r2, now))
  /\ UNCHANGED <<now, ticks, batch, single>>

\* lines 210-212: sleep(500) is over, the loop tests its guard again
Resend(c, id) ==
  /\ calls[c].resendAlive
  /\ now >= calls[c].resendAt
  /\ LET r == calls[c]
     IN IF ResendGuard(r.sstDone, now, r.startTime, r.timeout)
        THEN SetCall(c, [r EXCEPT !.txid = TxidAfterResend(r.txid, id),
                                  !.resendAt = now + ResendInterval])
        ELSE SetCall(c, [r EXCEPT !.resendAlive = FALSE, !.resendAt = 0])
  /\ UNCHANGED <<now, ticks, batch, single>>

\* lines 71-76: the timer callback
TimerFires(c) ==
  /\ calls[c].timerArmed
  /\ now >= calls[c].timerAt
  /\ LET r == [calls[c] EXCEPT !.timerArmed = FALSE]
     IN IF r.atscDone
        THEN SetCall(c, r)
        ELSE SetCall(c, Settle([r EXCEPT !.atscDone = TRUE],
                               RejectedTimeout, Event("timer", 0, NoErr)))
  /\ UNCHANGED <<now, ticks, batch, single>>

\* lines 81-92: the websocket notification; the client drops a signature
\* subscription when its notification arrives
PushNotify(c, slot, err) ==
  /\ calls[c].subscribed
  /\ LET st == Status(slot, 0, err)
         r == [calls[c] EXCEPT !.subscribed = FALSE,
                               !.atscDone = TRUE,
                               !.status = st,
                               !.decisive = TRUE]
     IN SetCall(c, Settle(r,
                          IF err # NoErr THEN RejectedErr(err)
                                         ELSE Fulfilled(st),
                          Event("push", slot, err)))
  /\ UNCHANGED <<now, ticks, batch, single>>

\* line 100 and 128: sleep(2000) is over, the REST loop tests its guard
PollTick(c) ==
  /\ calls[c].pollAlive
  /\ now >= calls[c].pollAt
  /\ SetCall(c, PollPass(calls[c], now))
  /\ UNCHANGED <<now, ticks, batch, single>>

\* a slip of lines 108-109: a null status is taken for an error
PollDecide_NullRejects(r, st) ==
  IF r.atscDone THEN r
  ELSE IF st.null \/ st.err # NoErr
       THEN Settle([r EXCEPT !.atscDone = TRUE],
                   RejectedErr(st.err), Event("poll", st.slot, st.err))
  ELSE IF st.confirmations = NullConf \/ st.confirmations = 0 THEN r
  ELSE Settle([r EXCEPT !.atscDone = TRUE],
              Fulfilled(st), Event("poll", st.slot, st.err))

\* lines 107-121: what the REST branch does with the status it read
PollDecide(r, st) ==
  IF r.atscDone THEN r
  ELSE IF st.null THEN r
  ELSE IF st.err # NoErr
       THEN Settle([r EXCEPT !.atscDone = TRUE],
                   RejectedErr(st.err), Event("poll", st.slot, st.err))
  ELSE IF st.confirmations = NullConf \/ st.confirmations = 0 THEN r
  ELSE Settle([r EXCEPT !.atscDone = TRUE],
              Fulfilled(st), Event("poll", st.slot, st.err))

\* lines 102-126: a getSignatureStatuses call answers
PollReturns(c, resp) ==
  /\ calls[c].inflight > 0
  /\ LET r == [calls[c] EXCEPT !.inflight = @ - 1]
     IN IF resp.kind = "throw"
        THEN SetCall(c, r)
        ELSE SetCall(c, PollDecide([r EXCEPT !.status = resp.st,
                                             !.decisive =
                                               @ \/ ~resp.st.null],
                                   resp.st))
  /\ UNCHANGED <<now, ticks, batch, single>>

\* lines 157-160: connection._recentBlockhash answers, the transaction's
\* recentBlockhash is overwritten and the simulateTransaction request goes out
SimBlockhashReturns(c, bh) ==
  /\ calls[c].pc = "simBlockhash"
  /\ SetCall(c, [calls[c] EXCEPT !.blockhash = bh, !.pc = "simRpc"])
  /\ UNCHANGED <<now, ticks, batch, single>>

\* lines 157, 247: connection._recentBlockhash throws, simulateResult is null
SimBlockhashFails(c) ==
  /\ calls[c].pc = "simBlockhash"
  /\ SetCall(c, AfterSimulate(calls[c], NoSim))
  /\ UNCHANGED <<now, ticks, batch, single>>

\* lines 173-180, 244-266: the simulateTransaction request answers
SimReturns(c, resp) ==
  /\ calls[c].pc = "simRpc"
  /\ SetCall(c, AfterSimulate([calls[c] EXCEPT !.simSeen = resp], resp))
  /\ UNCHANGED <<now, ticks, batch, single>>

\* call c still waits for a timer, a sleep or an answer of the network
Busy(c) ==
  \/ calls[c].pc \in {"sending", "waiting", "simBlockhash", "simRpc"}
  \/ calls[c].timerArmed
  \/ calls[c].resendAlive
  \/ calls[c].pollAlive
  \/ calls[c].inflight > 0

\* time passes (while somebody waits for it)
Tick ==
  /\ ticks < MaxTicks
  /\ \E c \in Calls : Busy(c)
  /\ ticks' = ticks + 1
  /\ now' = now + ResendInterval
  /\ UNCHANGED <<calls, batch, single>>

\* ------------------------------------ one call of sendSignedTransaction
Next ==
  \/ Submit
  \/ FirstSendFails(1)
  \/ \E id \in FirstIds, subOk \in BOOLEAN : FirstSendReturns(1, id, subOk)
  \/ \E id \in TxIds : Resend(1, id)
  \/ TimerFires(1)
  \/ \E slot \in PushSlots, err \in Errs \cup {NoErr} :
       PushNotify(1, slot, err)
  \/ PollTick(1)
  \/ \E resp \in PollResponses : PollReturns(1, resp)
  \/ \E bh \in Blockhashes : SimBlockhashReturns(1, bh)
  \/ SimBlockhashFails(1)
  \/ \E resp \in SimResponses : SimReturns(1, resp)
  \/ Tick

Spec == Init /\ [][Next]_vars

\* ================================================== sendTransactions
WalletNotConnected == <<"WalletNotConnectedError">>
BlockhashError == <<"getLatestBlockhash failed">>
WalletError == <<"signAllTransactions failed">>

\* the outcomes of one sendSignedTransaction whose first sendRawTransaction
\* was accepted, as the single-call specification reaches them
SstOutcomes ==
  { Resolved(id, s) : id \in FirstIds, s \in Slots \cup {0} }
  \cup { Rejected(TimeoutMessage) }
  \cup { Rejected(FailedPrefix \o Slice(l, Len(Marker))) :
           l \in { x \in LogLines : StartsWith(x, Marker) } }
  \cup { Rejected(JsonStringify(e)) : e \in SimErrs }

\* the outcomes the batch specification draws from
BatchOutcomes ==
  { Resolved(id, s) : id \in FirstIds, s \in Slots }
  \cup { Rejected(TimeoutMessage) }

\* lines 760-780: the transactions built from the groups, empty groups
\* skipped, between beforeTransactions and afterTransactions
RECURSIVE NonEmpty(_)
NonEmpty(groups) ==
  IF groups = <<>> THEN 0
  ELSE (IF Head(groups) = 0 THEN 0 ELSE 1) + NonEmpty(Tail(groups))

UnsignedCount(nBefore, groups, nAfter) ==
  nBefore + NonEmpty(groups) + nAfter

\* lines 782-792: both filter callbacks have a block body without return,
\* they yield undefined for every transaction
PartialFilterKeeps(walletHasSigned) == FALSE
FullFilterKeeps(walletHasSigned) == FALSE

\* Array.prototype.filter over n transactions that all give the same answer
FilterCount(n, keeps) == IF keeps THEN n ELSE 0

\* a slip of line 814: only StopOnFailure awaits
Awaited_OnlyStop(policy) == policy = "StopOnFailure"

\* line 814: is the submission awaited before the next one is issued
Awaited(policy) == policy # "Parallel"

\* a slip of line 827: every awaited policy stops at a failure
StopsOnFailure_Awaited(policy) == policy # "Parallel"

\* line 827: does a failed submission end the batch
StopsOnFailure(policy) == policy = "StopOnFailure"

\* a slip of line 828: the failed submission is counted too
NumberOnFailure_Counted(i) == i + 1

\* line 828: number of the result when the batch stops at index i
NumberOnFailure(i) == i

\* Promise.all(pendingTxns) of fulfilled promises
TxsOf(pending) ==
  [k \in 1..Len(pending) |->
     [txid |-> calls[pending[k]].result.txid,
      slot |-> calls[pending[k]].result.slot]]

Callback(kind, ind) == [kind |-> kind, ind |-> ind]

\* sendTransactions returns
BatchResolve(b, n) ==
  [b EXCEPT !.pc = "resolved", !.number = n, !.txs = TxsOf(b.pending)]

BatchReject(b, msg) == [b EXCEPT !.pc = "rejected", !.message = msg]

\* line 770: transaction.recentBlockhash = block.blockhash, for each of the
\* n transactions built
RecentBlockhashes(block, n) == { block : k \in 1..n }

\* lines 760-796: build, filter, hand the transactions to the wallet
Build(b) ==
  LET n == UnsignedCount(b.nBefore, b.groups, b.nAfter)
  IN [b EXCEPT !.pc = "signing",
               !.signCalls = @ + 1,
               !.hashes = RecentBlockhashes(b.block, NonEmpty(b.groups)),
               !.unsigned = n,
               !.toSign = FilterCount(n, PartialFilterKeeps(FALSE)),
               !.signed = FilterCount(n, FullFilterKeeps(FALSE)),
               !.groups = <<>>]

\* a slip of lines 660 and 750: the test of wallet.publicKey is missing
WalletConnected_Unchecked(hasKey) == TRUE

\* lines 660 and 750: if (!wallet.publicKey) throw
WalletConnected(hasKey) == hasKey

\* a slip of line 756: the reference is fetched whatever the caller passed
NeedsFetch_Always(hasBlock) == TRUE

\* line 756: if (!block)
NeedsFetch(hasBlock) == ~hasBlock

\* lines 750-758; a `block` passed by the caller carries CallerBlock
SendTransactions(policy, groups, nBefore, nAfter, hasBlock, hasKey) ==
  /\ batch.pc = "idle"
  /\ single.pc = "idle"
  /\ \A c \in Calls : calls[c].pc = "idle"
  /\ LET b == [batch EXCEPT !.policy = policy, !.groups = groups,
                            !.nBefore = nBefore, !.nAfter = nAfter,
                            !.hasKey = hasKey,
                            !.hasBlock = hasBlock,
                            !.block = IF hasBlock THEN CallerBlock
                                                  ELSE NoBlock]
     IN batch' =
          IF ~WalletConnected(hasKey)
          THEN BatchReject(b, WalletNotConnected)
          ELSE IF NeedsFetch(hasBlock)
               THEN [b EXCEPT !.pc = "blockhash", !.fetches = @ + 1]
               ELSE Build(b)
  /\ UNCHANGED <<now, ticks, calls, single>>

\* line 757: getLatestBlockhash answers
BlockhashReturns ==
  /\ batch.pc = "blockhash"
  /\ \E bh \in Blockhashes : batch' = Build([batch EXCEPT !.block = bh])
  /\ UNCHANGED <<now, ticks, calls, single>>

\* line 757: getLatestBlockhash throws
BlockhashFails ==
  /\ batch.pc = "blockhash"
  /\ batch' = BatchReject(batch, BlockhashError)
  /\ UNCHANGED <<now, ticks, calls, single>>

\* line 794: the wallet refuses to sign
SignAllFails ==
  /\ batch.pc = "signing"
  /\ batch' = BatchReject(batch, WalletError)
  /\ UNCHANGED <<now, ticks, calls, single>>

\* lines 794-834: the wallet gives back w signed transactions; the loop
\* starts: every submission at once when they are not awaited, the first one
\* otherwise
SignAllReturns(w) ==
  /\ batch.pc = "signing"
  /\ LET n == batch.signed + w
         b == [batch EXCEPT !.fromWallet = w, !.signed = n]
     IN IF n = 0
        THEN /\ batch' = BatchResolve(b, 0)
             /\ UNCHANGED calls
        ELSE IF Awaited(b.policy)
        THEN /\ batch' = [b EXCEPT !.pc = "awaitOne"]
             /\ SetCall(1, StartCall(calls[1], DEFAULT_TIMEOUT, now))
        ELSE /\ batch' = [b EXCEPT !.pc = "awaitAll",
                                   !.i = n,
                                   !.pending = [k \in 1..n |-> k]]
             /\ calls' = [c \in Calls |->
                            IF c <= n
                            THEN StartCall(calls[c], DEFAULT_TIMEOUT, now)
                            ELSE calls[c]]
  /\ UNCHANGED <<now, ticks, single>>

\* lines 816-834 and 836-838: the awaited submission has settled; its
\* callback runs and the loop goes on
BatchContinue ==
  /\ batch.pc = "awaitOne"
  /\ LET c == batch.i + 1
         ok == calls[c].result.kind = "resolved"
         b == IF ok
              THEN [batch EXCEPT
                      !.callbacks = Append(@, Callback("success", batch.i)),
                      !.pending = Append(@, c)]
              ELSE [batch EXCEPT
                      !.callbacks = Append(@, Callback("failure", batch.i))]
     IN /\ Settled(c)
        /\ IF ~ok /\ StopsOnFailure(b.policy)
           THEN /\ batch' = BatchResolve(b, NumberOnFailure(b.i))
                /\ UNCHANGED calls
           ELSE IF b.i + 1 < b.signed
           THEN /\ batch' = [b EXCEPT !.i = @ + 1]
                /\ SetCall(c + 1,
                           StartCall(calls[c + 1], DEFAULT_TIMEOUT, now))
           ELSE /\ batch' = BatchResolve([b EXCEPT !.i = @ + 1], b.signed)
                /\ UNCHANGED calls
  /\ UNCHANGED <<now, ticks, single>>

\* line 840: Promise.all(pendingTxns) settles: fulfilled when every
\* submission resolved, rejected as soon as one rejected
BatchAllSettle ==
  /\ batch.pc = "awaitAll"
  /\ \/ /\ \A k \in 1..batch.signed : calls[k].result.kind = "resolved"
        /\ batch' = BatchResolve(batch, batch.signed)
     \/ \E k \in 1..batch.signed :
          /\ calls[k].result.kind = "rejected"
          /\ batch' = BatchReject(batch, calls[k].result.message)
  /\ UNCHANGED <<now, ticks, calls, single>>

\* lines 216-269 of one submission of the batch, collapsed into its outcome:
\* the confirmation wait ends and sendSignedTransaction settles (it never
\* does when the subscription could not be registered)
SstSettles(c, res) ==
  /\ batch.pc # "idle"
  /\ calls[c].pc = "waiting"
  /\ ~calls[c].subThrew
  /\ SetCall(c, [calls[c] EXCEPT !.pc = res.kind,
                                 !.result = res,
                                 !.atscDone = TRUE,
                                 !.sstDone = TRUE,
                                 !.subscribed = FALSE])
  /\ UNCHANGED <<now, ticks, batch, single>>

\* sizes of instruction groups
GroupSizes == {0, 1}

NextBatch ==
  \/ \E policy \in Policies, groups \in SeqsUpTo(GroupSizes, MaxTx),
        nBefore \in {0, 1}, nAfter \in {0, 1},
        hasBlock \in BOOLEAN, hasKey \in BOOLEAN :
       SendTransactions(policy, groups, nBefore, nAfter, hasBlock, hasKey)
  \/ BlockhashReturns
  \/ BlockhashFails
  \/ SignAllFails
  \/ \E w \in 0..MaxTx : SignAllReturns(w)
  \/ BatchContinue
  \/ BatchAllSettle
  \/ \E c \in Calls : FirstSendFails(c)
  \/ \E c \in Calls, id \in FirstIds, subOk \in BOOLEAN :
       FirstSendReturns(c, id, subOk)
  \/ \E c \in Calls, res \in BatchOutcomes : SstSettles(c, res)

SpecBatch == Init /\ [][NextBatch]_vars

\* ==================================================== sendTransaction
\* (src/unnamed/part_002, lines 650-720, with the
\* awaitTransactionSignatureConfirmation of lines 419-505 called without
\* queryStatus)
RpcError == <<"rpc request failed">>
SignError == <<"signTransaction failed">>
\* the values the promise of line 434 is rejected with, thrown on as they are
TimeoutObject == <<"{timeout: true}">>
StatusObject(slot, err) == <<"status", slot, err>>

SingleSettle(r, res) == [r EXCEPT !.pc = res.kind, !.result = res]

\* line 690-693: serialize and issue sendRawTransaction
SingleSend(r) ==
  [r EXCEPT !.pc = "sending", !.rpcCalls = @ + 1, !.submits = @ + 1]

\* lines 675-688: fee payer, partialSign, then the wallet signs unless the
\* fee payer is among the signers
SingleAfterBlock(r) ==
  IF ~r.feePayer
  THEN [r EXCEPT !.pc = "signing", !.signCalls = @ + 1]
  ELSE SingleSend(r)

\* lines 660-693, up to the first await
SendTransaction(hasKey, isTx, hasBlock, feePayer, confirm) ==
  /\ single.pc = "idle"
  /\ \/ batch.pc = "idle"
     \/ batch.pc = "rejected" /\ batch.message = WalletNotConnected
  /\ \A c \in Calls : calls[c].pc = "idle"
  /\ LET r == [single EXCEPT !.hasKey = hasKey, !.isTx = isTx,
                             !.hasBlock = hasBlock, !.feePayer = feePayer,
                             !.confirm = confirm]
     IN single' =
          IF ~WalletConnected(hasKey)
          THEN SingleSettle(r, Rejected(WalletNotConnected))
          ELSE IF isTx THEN SingleSend(r)
          ELSE IF ~hasBlock
               THEN [r EXCEPT !.pc = "blockhash", !.rpcCalls = @ + 1]
               ELSE SingleAfterBlock(r)
  /\ UNCHANGED <<now, ticks, calls, batch>>

\* line 672: getLatestBlockhash answers
SingleBlockhashReturns ==
  /\ single.pc = "blockhash"
  /\ single' = SingleAfterBlock(single)
  /\ UNCHANGED <<now, ticks, calls, batch>>

\* line 672: getLatestBlockhash throws
SingleBlockhashFails ==
  /\ single.pc = "blockhash"
  /\ single' = SingleSettle(single, Rejected(RpcError))
  /\ UNCHANGED <<now, ticks, calls, batch>>

\* line 686: the wallet has signed
SingleSignReturns ==
  /\ single.pc = "signing"
  /\ single' = SingleSend(single)
  /\ UNCHANGED <<now, ticks, calls, batch>>

\* line 686: the wallet refuses
SingleSignFails ==
  /\ single.pc = "signing"
  /\ single' = SingleSettle(single, Rejected(SignError))
  /\ UNCHANGED <<now, ticks, calls, batch>>

\* line 693: sendRawTransaction throws
SingleSendFails ==
  /\ single.pc = "sending"
  /\ single' = SingleSettle(single, Rejected(SendErrorMessage))
  /\ UNCHANGED <<now, ticks, calls, batch>>

\* lines 693-703 and 434-494: sendRawTransaction gives id; without
\* awaitConfirmation the call returns {txid, slot: 0}; otherwise the timer is
\* armed and the subscription registered (queryStatus is undefined: the
\* REST loop does not run)
SingleSendReturns(id, subOk) ==
  /\ single.pc = "sending"
  /\ single' =
       IF ~single.confirm
       THEN SingleSettle([single EXCEPT !.txid = id], Resolved(id, 0))
       ELSE [single EXCEPT !.txid = id,
                           !.pc = "waiting",
                           !.timerArmed = TRUE,
                           !.timerAt = now + DEFAULT_TIMEOUT,
                           !.rpcCalls = @ + 1,
                           !.subscribed = subOk,
                           !.subThrew = ~subOk,
                           !.atscDone = ~subOk]
  /\ UNCHANGED <<now, ticks, calls, batch>>

\* lines 435-440: the timer callback; the rejection is not caught by
\* sendTransaction
SingleTimerFires ==
  /\ single.timerArmed
  /\ now >= single.timerAt
  /\ LET r == [single EXCEPT !.timerArmed = FALSE]
     IN single' =
          IF r.atscDone \/ r.promise # "pending" THEN r
          ELSE SingleSettle([r EXCEPT !.atscDone = TRUE,
                                      !.promise = "rejected"],
                            Rejected(TimeoutObject))
  /\ UNCHANGED <<now, ticks, calls, batch>>

\* lines 445-456 and 496-504, 705-719: the websocket notification
SinglePushNotify(slot, err) ==
  /\ single.subscribed
  /\ LET r == [single EXCEPT !.subscribed = FALSE, !.atscDone = TRUE]
     IN single' =
          IF r.promise # "pending" THEN r
          ELSE IF err # NoErr
          THEN SingleSettle([r EXCEPT !.promise = "rejected"],
                            Rejected(StatusObject(slot, err)))
          ELSE SingleSettle([r EXCEPT !.promise = "fulfilled"],
                            Resolved(r.txid, SlotOrZero(slot)))
  /\ UNCHANGED <<now, ticks, calls, batch>>

\* DEFAULT_TIMEOUT milliseconds pass (while the timer is armed)
TickLong ==
  /\ ticks < MaxTicks
  /\ single.timerArmed
  /\ ticks' = ticks + 1
  /\ now' = now + DEFAULT_TIMEOUT
  /\ UNCHANGED <<calls, batch, single>>

NextSingle ==
  \/ \E hasKey, isTx, hasBlock, feePayer, confirm \in BOOLEAN :
       SendTransaction(hasKey, isTx, hasBlock, feePayer, confirm)
  \/ SingleBlockhashReturns
  \/ SingleBlockhashFails
  \/ SingleSignReturns
  \/ SingleSignFails
  \/ SingleSendFails
  \/ \E id \in FirstIds, subOk \in BOOLEAN : SingleSendReturns(id, subOk)
  \/ SingleTimerFires
  \/ \E slot \in Slots, err \in Errs \cup {NoErr} :
       SinglePushNotify(slot, err)
  \/ TickLong

\* the wallet-level entry points: sendTransactions, sendTransaction
SpecWallet == Init /\ [][NextBatch \/ NextSingle]_vars

\* ====================================== two concurrent submissions
\* two calls of sendSignedTransaction in progress together, as the loop of
\* sendTransactions issues them under Parallel (src/unnamed/part_002, lines
\* 808-812 and 831-833); the clock is watched every PairStep milliseconds
PairTicks == 1
PairStep == PollInterval
PairTimeout == 2 * ResendInterval
Pair == {1, 2}
\* the id of a transaction is its first signature: each of the two
\* transactions has its own
PairId(c) == IF c = 1 THEN "sigA" ELSE "sigB"

\* the answers the pair is run against: a getSignatureStatuses call throws
\* or confirms, an error is reported by the notification, and the
\* simulation that follows answers with an error and no log
PairPollResponses ==
  { resp \in PollResponses :
      resp.kind = "throw" \/ (resp.st.err = NoErr /\ resp.st.confirmations = 1) }
PairSimResponses ==
  { resp \in SimResponses :
      ~resp.hasLogs /\ resp.kind = "ok" /\ resp.err # NoErr }

\* lines 808-812, 831-833: both submissions are issued in one pass
SubmitPair ==
  /\ batch.pc = "idle"
  /\ single.pc = "idle"
  /\ \A c \in Pair : calls[c].pc = "idle"
  /\ calls' = [c \in Calls |->
                 IF c \in Pair
                 THEN StartCall(calls[c], PairTimeout, now)
                 ELSE calls[c]]
  /\ UNCHANGED <<now, ticks, batch, single>>

TickPair ==
  /\ ticks < PairTicks
  /\ \E c \in Pair : Busy(c)
  /\ ticks' = ticks + 1
  /\ now' = now + PairStep
  /\ UNCHANGED <<calls, batch, single>>

NextPair ==
  \/ SubmitPair
  \/ \E c \in Pair : FirstSendFails(c)
  \/ \E c \in Pair, subOk \in BOOLEAN :
       FirstSendReturns(c, PairId(c), subOk)
  \/ \E c \in Pair, id \in FirstIds : Resend(c, id)
  \/ \E c \in Pair : TimerFires(c)
  \/ \E c \in Pair, slot \in PushSlots, err \in Errs \cup {NoErr} :
       PushNotify(c, slot, err)
  \/ \E c \in Pair : PollTick(c)
  \/ \E c \in Pair, resp \in PairPollResponses : PollReturns(c, resp)
  \/ \E c \in Pair : SimBlockhashReturns(c, "bh1")
  \/ \E c \in Pair, resp \in PairSimResponses : SimReturns(c, resp)
  \/ TickPair

SpecPair == Init /\ [][NextPair]_vars

\* ================================================================ claims
\* the calls of sendSignedTransaction whose confirmation wait has begun
Waited == { c \in Calls : calls[c].pc \notin {"idle", "sending"}
                          /\ calls[c].firstId # NoTx }

\* the wait of call c ended because a confirmation source reported an error
EndedByError(c) == calls[c].endEvent.err # NoErr

\* the simulation of call c answered with a log that has a marker line
MarkerLines(c) ==
  IF calls[c].simSeen.kind = "ok" /\ calls[c].simSeen.hasLogs
  THEN { i \in 1..Len(calls[c].simSeen.logs) :
           StartsWith(calls[c].simSeen.logs[i], Marker) }
  ELSE {}

\* C1: every call of sendSignedTransaction resolves or rejects, whatever the
\* RPC collaborator does, provided the timer fires and every RPC call
\* returns.  Stated on finite runs: once the timer has fired and no RPC call
\* of the submission is outstanding, the call has resolved or rejected.
C1_SettlesOnceTimerFired ==
  \A c \in Waited :
    (/\ ~calls[c].timerArmed
     /\ calls[c].inflight = 0
     /\ calls[c].pc \notin {"simBlockhash", "simRpc"})
    => Settled(c)

\* C2: when no source ever reports a status, sendSignedTransaction rejects
\* with the Timeout error once the timer of the wait has fired, and it does
\* not reject with Timeout before `timeout` ms have passed since the wait
\* began.
C2_TimeoutWhenNothingReported ==
  \A c \in Waited :
    /\ (~calls[c].decisive /\ ~calls[c].timerArmed)
         => calls[c].result = Rejected(TimeoutMessage)
    /\ calls[c].result = Rejected(TimeoutMessage)
         => now >= calls[c].timerAt

\* C3: a resolved sendSignedTransaction returns the id of the first
\* sendRawTransaction and the slot of the event that ended the wait.
C3_ResolvedIdAndSlot ==
  \A c \in Waited :
    calls[c].result.kind = "resolved"
    => /\ calls[c].result.txid = calls[c].firstId
       /\ calls[c].result.slot = calls[c].endEvent.slot

\* C4: when the wait ended because a source reported an error,
\* sendSignedTransaction does not resolve, whatever the simulation does.
C4_ReportedErrorNeverResolves ==
  \A c \in Waited :
    EndedByError(c) => calls[c].result.kind # "resolved"

\* C5: when the wait ended with a reported error and the simulation log has
\* a marker line, sendSignedTransaction rejects with the text that follows
\* the marker on such a line (behind the fixed 'Transaction failed: ').
C5_MarkerLineRejects ==
  \A c \in Waited :
    (Settled(c) /\ EndedByError(c) /\ MarkerLines(c) # {})
    => \E i \in MarkerLines(c) :
         calls[c].result =
           Rejected(FailedPrefix
                    \o Slice(calls[c].simSeen.logs[i], Len(Marker)))

\* C6: when the wait ended with a reported error and the simulation gives no
\* marker line, sendSignedTransaction rejects with the raw error that the
\* confirmation source reported.
C6_NoMarkerRejectsRaw ==
  \A c \in Waited :
    (Settled(c) /\ EndedByError(c) /\ MarkerLines(c) = {})
    => calls[c].result = Rejected(JsonStringify(calls[c].endEvent.err))

\* every outcome of a submission whose first sendRawTransaction was accepted
\* is one of SstOutcomes (checked under Spec); the batch specification draws
\* its outcomes from them
ResultsAreOutcomes ==
  /\ BatchOutcomes \subseteq SstOutcomes
  /\ \A c \in Waited : Settled(c) => calls[c].result \in SstOutcomes

\* ------------------------------------------------------------- the batch
\* the submissions of the batch that were issued
Issued == { c \in Calls : calls[c].pc # "idle" }

\* the wallet gave back one signed transaction for each one it was handed
HonestWallet == batch.fromWallet = batch.toSign

CallbacksFor(c) ==
  { j \in 1..Len(batch.callbacks) : batch.callbacks[j].ind = c - 1 }

\* C7 (as claimed): with StopOnFailure, once the submission at position k
\* has failed no later one is submitted and the result reports k.
C7_StopOnFailureReportsK ==
  batch.policy = "StopOnFailure" =>
    \A k \in Calls :
      calls[k].result.kind = "rejected"
      => /\ \A c \in Calls : c > k => calls[c].pc = "idle"
         /\ batch.pc = "resolved" => batch.number = k

\* C7 (amended): with StopOnFailure, once the submission at position k has
\* failed no later one is submitted and the result reports k - 1, the number
\* of submissions that succeeded before it.
C7_StopOnFailureReportsSucceeded ==
  batch.policy = "StopOnFailure" =>
    \A k \in Calls :
      calls[k].result.kind = "rejected"
      => /\ \A c \in Calls : c > k => calls[c].pc = "idle"
         /\ batch.pc = "resolved"
              => batch.number = k - 1 /\ Len(batch.txs) = k - 1

\* three transactions, the second fails: the result says 1, the third is
\* never submitted
C7_Witness ==
  /\ batch.policy = "StopOnFailure"
  /\ batch.signed = 3
  /\ calls[1].result.kind = "resolved"
  /\ calls[2].result.kind = "rejected"
  /\ calls[3].pc = "idle"
  /\ batch.pc = "resolved"
  /\ batch.number = 1

\* C8: with Parallel over n non-empty groups (and a wallet that signs what
\* it is handed) all n transactions are submitted, none waiting for another.
C8_ParallelSubmitsAll ==
  (/\ batch.policy = "Parallel"
   /\ batch.pc \in {"awaitAll", "resolved"}
   /\ batch.nBefore = 0 /\ batch.nAfter = 0
   /\ HonestWallet)
  => Cardinality(Issued) = batch.unsigned

\* C9: with Sequential or StopOnFailure a submission is issued only after
\* every earlier one has resolved or rejected, so that no two submissions
\* of the batch are in progress together.
C9_OneSubmissionAtATime ==
  batch.policy \in {"Sequential", "StopOnFailure"} =>
    /\ \A c, d \in Calls : (c < d /\ calls[d].pc # "idle") => Settled(c)
    /\ Cardinality({ c \in Issued : ~Settled(c) }) <= 1

\* the second submission of a Sequential batch is in progress, the first has
\* failed
C9_Witness ==
  /\ batch.policy = "Sequential"
  /\ calls[1].result.kind = "rejected"
  /\ calls[2].pc = "waiting"
  /\ calls[3].pc = "idle"

\* C10: under every policy, when sendTransactions is over each submission
\* that settled has had exactly one callback with its index, successCallback
\* if it resolved and failureCallback if it rejected.
C10_OneCallbackPerSubmission ==
  batch.pc \in {"resolved", "rejected"} =>
    \A c \in Issued :
      Settled(c) =>
        /\ Cardinality(CallbacksFor(c)) = 1
        /\ \A j \in CallbacksFor(c) :
             batch.callbacks[j].kind =
               (IF calls[c].result.kind = "resolved"
                THEN "success" ELSE "failure")

\* C11: with Sequential a failed submission does not end the batch: the
\* loop goes on to the next transaction, sendTransactions ends only when
\* every transaction has been submitted and has settled, and it ends by
\* resolving.  Parallel issues every transaction as well; only
\* StopOnFailure leaves transactions unsubmitted.
C11_SequentialGoesOn ==
  /\ batch.policy = "Sequential" =>
       /\ \A c \in Calls :
            (c < batch.signed /\ batch.i >= c
             /\ calls[c].result.kind = "rejected")
            => calls[c + 1].pc # "idle"
       /\ batch.pc = "resolved" =>
            /\ Issued = 1..batch.signed
            /\ \A c \in Issued : Settled(c)
            /\ batch.number = batch.signed
       /\ batch.pc = "rejected" => Issued = {}
  /\ (batch.policy = "Parallel" /\ batch.pc \in {"awaitAll", "resolved"})
       => Issued = 1..batch.signed

\* a Sequential batch of three whose first two submissions failed has
\* submitted the third and has resolved
C11_Witness ==
  /\ batch.policy = "Sequential"
  /\ batch.signed = 3
  /\ calls[1].result.kind = "rejected"
  /\ calls[2].result.kind = "rejected"
  /\ calls[3].result.kind = "resolved"
  /\ batch.pc = "resolved"

\* C12: without a public key in the wallet, sendTransaction and
\* sendTransactions reject with WalletNotConnected, and they have made no
\* RPC call and no signing call.
C12_NoKeyNoCalls ==
  /\ (~batch.hasKey /\ batch.pc # "idle") =>
       /\ batch.pc = "rejected"
       /\ batch.message = WalletNotConnected
       /\ batch.fetches = 0
       /\ batch.signCalls = 0
       /\ Issued = {}
  /\ (~single.hasKey /\ single.pc # "idle") =>
       /\ single.result = Rejected(WalletNotConnected)
       /\ single.rpcCalls = 0
       /\ single.signCalls = 0
       /\ single.submits = 0

\* both entry points were called with a wallet that has no key
C12_Witness ==
  /\ ~batch.hasKey /\ batch.pc = "rejected"
  /\ ~single.hasKey /\ single.pc = "rejected"

\* the step is a pass of the re-broadcast loop of call c that issues
\* sendRawTransaction (line 211) and goes to sleep again
ResendSubmits(c) ==
  /\ calls[c].resendAlive
  /\ calls'[c].resendAlive
  /\ calls'[c].resendAt # calls[c].resendAt

\* C13: once the confirmation wait of sendSignedTransaction has ended (by a
\* reported success, a reported error or the timeout), the re-broadcast
\* loop issues no further sendRawTransaction.
C13_NoResendAfterWaitEnded ==
  [][\A c \in Calls :
       ResendSubmits(c) => calls[c].promise.state = "pending"]_vars

\* C14: sendSignedTransaction never modifies the signed transaction it is
\* given: on every path its recent-block reference is what it was when the
\* call was made.
C14_TransactionUntouched ==
  \A c \in Calls : calls[c].blockhash = IdleCall.blockhash

\* the promise of the wait of call c, once settled, keeps its state and its
\* value, and the event that settled it stays the same
OutcomeKept(c) ==
  calls[c].promise.state # "pending"
  => /\ calls'[c].promise = calls[c].promise
     /\ calls'[c].endEvent = calls[c].endEvent

\* C15: the outcome of awaitTransactionSignatureConfirmation is decided
\* exactly once, by the first decisive event among push success, push error,
\* poll success, poll error and timer expiry (so it is decided once the
\* timer has fired), and no later event changes whether the wait resolved
\* or rejected, nor the value.
C15_DecidedExactlyOnce ==
  /\ [](\A c \in Waited :
          ~calls[c].timerArmed => calls[c].promise.state # "pending")
  /\ [][\A c \in Calls : OutcomeKept(c)]_vars

\* the second half of C15 alone: a decided outcome is never changed
C15_DecidedAtMostOnce == [][\A c \in Calls : OutcomeKept(c)]_vars

\* C16: the push branch and the polling branch of
\* awaitTransactionSignatureConfirmation test the completion flag before
\* they act: in a step taken with the flag already set, the shared status
\* variable is not written.
C16_NoWriteOnceDone ==
  [][\A c \in Calls :
       calls[c].atscDone => calls'[c].status = calls[c].status]_vars

\* C17: the wait resolves as soon as a source reports a status without
\* error: once a status that is not null and has no error was reported, the
\* wait is no longer undecided, whatever the confirmations field of that
\* status is.
C17_StatusWithoutErrorDecides ==
  \A c \in Waited :
    (/\ calls[c].decisive
     /\ ~calls[c].status.null
     /\ calls[c].status.err = NoErr)
    => calls[c].promise.state # "pending"

\* C18: sendSignedTransaction calls simulateTransaction only after a
\* confirmation source has reported an error for the transaction: never
\* when the wait ended by the timeout, never when it ended by a success, and
\* at most once for a submission.
C18_SimulateOnlyAfterReportedError ==
  \A c \in Calls :
    /\ calls[c].simCalls <= 1
    /\ calls[c].simCalls = 1
         => /\ calls[c].endEvent.src \in {"push", "poll"}
            /\ calls[c].endEvent.err # NoErr
            /\ calls[c].promise = RejectedErr(calls[c].endEvent.err)
    /\ calls[c].pc \in {"simBlockhash", "simRpc"} => calls[c].simCalls = 1
    /\ calls[c].simSeen # NoSim => calls[c].simCalls = 1

\* a polled error was followed by one simulation, which has answered
C18_Witness ==
  \E c \in Calls :
    /\ calls[c].endEvent.src = "poll"
    /\ calls[c].simCalls = 1
    /\ calls[c].simSeen.kind = "ok"
    /\ Settled(c)

\* C19: the re-broadcast loop stops by its own time guard: once `timeout`
\* milliseconds have passed since the call read the clock, it issues no
\* further sendRawTransaction, whether or not the completion flag is set.
C19_ResendStopsAtTimeout ==
  [][\A c \in Calls :
       ResendSubmits(c) => now - calls[c].startTime < calls[c].timeout]_vars

\* the step is the answer of a getSignatureStatuses call of call c that
\* threw (status is left alone) or gave a null status
PollFailsOrNull(c) ==
  /\ calls'[c].inflight < calls[c].inflight
  /\ \/ calls'[c].status = calls[c].status
     \/ calls'[c].status.null

\* the step is a pass of the REST loop of call c that goes to sleep again
PollLoops(c) ==
  /\ calls[c].pollAlive
  /\ calls'[c].pollAlive
  /\ calls'[c].pollAt # calls[c].pollAt

\* C20: a getSignatureStatuses call that throws or gives a null status does
\* not end the wait and does not reject the submission; polling goes on
\* every 2000 ms (a new call at each pass) for as long as the wait is
\* undecided.
C20_FailedPollKeepsWaiting ==
  /\ [][\A c \in Calls :
          (PollFailsOrNull(c) /\ calls[c].promise.state = "pending")
          => /\ calls'[c].promise.state = "pending"
             /\ calls'[c].atscDone = calls[c].atscDone
             /\ calls'[c].result = calls[c].result
             /\ calls'[c].pollAlive = calls[c].pollAlive
             /\ calls'[c].pollAt = calls[c].pollAt]_vars
  /\ [][\A c \in Calls :
          PollLoops(c)
          => /\ calls'[c].inflight = calls[c].inflight + 1
             /\ calls'[c].pollAt = now + PollInterval]_vars
  /\ [](\A c \in Waited :
          ~calls[c].atscDone
          => /\ calls[c].pollAlive
             /\ calls[c].pollAt <= now + PollInterval)

\* the first poll gave a null status and, 2000 ms later, with the wait still
\* undecided, the loop has issued the next one
C20_Witness ==
  \E c \in Calls :
    /\ calls[c].status.null
    /\ calls[c].promise.state = "pending"
    /\ ~calls[c].atscDone
    /\ calls[c].inflight = 1
    /\ calls[c].pollAt = 2 * PollInterval

\* C21: once the completion flag of awaitTransactionSignatureConfirmation
\* is set, no new getSignatureStatuses call is started and the REST loop
\* does not go to sleep again; the calls in flight may still answer.
C21_NoPollOnceDone ==
  /\ [][\A c \in Calls :
          calls'[c].inflight > calls[c].inflight
          => ~calls[c].atscDone /\ ~calls'[c].atscDone]_vars
  /\ [][\A c \in Calls : PollLoops(c) => ~calls[c].atscDone]_vars
  /\ [][\A c \in Calls :
          (calls[c].atscDone /\ ~calls[c].pollAlive)
          => ~calls'[c].pollAlive]_vars

\* a push notification set the flag, the loop woke later and ended, and a
\* call that was in flight has answered since
C21_Witness ==
  \E c \in Calls :
    /\ calls[c].endEvent.src = "push"
    /\ calls[c].status.slot \in PollSlots
    /\ ~calls[c].pollAlive
    /\ calls[c].inflight = 0
    /\ now >= PollInterval

\* C22: whenever awaitTransactionSignatureConfirmation has ended, by a
\* success, a reported error or the timeout, the signature subscription it
\* registered is no longer registered with the client.
C22_NoSubscriptionOutlivesWait ==
  \A c \in Waited :
    calls[c].promise.state # "pending" => ~calls[c].subscribed

\* the first sendRawTransaction of call c threw
FirstSendFailed(c) == calls[c].pc = "rejected" /\ calls[c].firstId = NoTx

\* C23: when the first sendRawTransaction of sendSignedTransaction fails,
\* the call rejects with that error and makes no other network call: no
\* re-broadcast, no subscription, no poll, no simulation, then or later.
C23_FailedFirstSendEndsCall ==
  /\ [](\A c \in Calls :
          FirstSendFailed(c)
          => /\ calls[c].result = Rejected(SendErrorMessage)
             /\ ~calls[c].resendAlive
             /\ ~calls[c].subscribed /\ ~calls[c].subThrew
             /\ ~calls[c].timerArmed
             /\ ~calls[c].pollAlive /\ calls[c].inflight = 0
             /\ calls[c].simCalls = 0
             /\ calls[c].promise = PendingPromise)
  /\ [][\A c \in Calls :
          FirstSendFailed(c) => calls'[c] = calls[c]]_vars

C23_Witness ==
  \E c \in Calls :
    FirstSendFailed(c) /\ calls[c].result = Rejected(SendErrorMessage)

\* the last line of the simulation log of call c that starts with the marker
LastMarkerLine(c) ==
  CHOOSE i \in MarkerLines(c) : \A j \in MarkerLines(c) : j <= i

\* C24: when the simulation reports an error and its log has several lines
\* that start with 'Program log: ', the message of the rejection is taken
\* from the last of them.
C24_LastMarkerLineWins ==
  \A c \in Waited :
    (/\ Settled(c)
     /\ calls[c].simSeen.kind = "ok"
     /\ calls[c].simSeen.err # NoErr
     /\ MarkerLines(c) # {})
    => calls[c].result =
         Rejected(FailedPrefix
                  \o Slice(calls[c].simSeen.logs[LastMarkerLine(c)],
                           Len(Marker)))

\* the log has two marker lines with different texts
C24_Witness ==
  \E c \in Waited :
    /\ Settled(c)
    /\ calls[c].simSeen.kind = "ok"
    /\ calls[c].simSeen.err # NoErr
    /\ Cardinality(MarkerLines(c)) = 2
    /\ calls[c].simSeen.logs[1] # calls[c].simSeen.logs[2]

\* C25: in one sendTransactions call (with a wallet that signs what it is
\* handed) every transaction built, one for each non-empty group next to
\* the before and after transactions, is signed and, when nothing fails,
\* submitted once: the submissions are as many as the transactions built.
C25_EveryGroupSubmittedOnce ==
  (HonestWallet /\ batch.pc \in {"awaitOne", "awaitAll", "resolved"})
  => /\ batch.signed = batch.unsigned
     /\ (/\ batch.pc = "resolved"
         /\ \A c \in Issued : calls[c].result.kind = "resolved")
        => Cardinality(Issued) = batch.unsigned

\* the transactions built by the call (one for each non-empty group)
BuiltCount == batch.unsigned - batch.nBefore - batch.nAfter

\* C26: all transactions built by one sendTransactions call carry the same
\* recent-block reference, the one the call holds; the reference is fetched
\* at most once, and not at all when the caller supplies it.
C26_OneSharedBlockReference ==
  /\ batch.fetches <= 1
  /\ batch.hasBlock => (batch.fetches = 0 /\ batch.block = CallerBlock)
  /\ Cardinality(batch.hashes) <= 1
  /\ batch.hashes \subseteq {batch.block}
  /\ (batch.pc \in {"signing", "awaitOne", "awaitAll", "resolved"})
       => /\ batch.block # NoBlock
          /\ BuiltCount > 0 => batch.hashes = {batch.block}

\* three transactions were built with a reference fetched by the call
C26_Witness ==
  /\ batch.pc = "resolved"
  /\ ~batch.hasBlock
  /\ batch.fetches = 1
  /\ BuiltCount = 3
  /\ batch.hashes = {"bh1"}

\* C27: whenever sendTransactions resolves, under any policy, the number it
\* returns is the length of the txs list it returns.
C27_NumberIsLengthOfTxs ==
  batch.pc = "resolved" => batch.number = Len(batch.txs)

\* C28: concurrent submissions are independent: a step of one call of
\* sendSignedTransaction in progress (its completion, failure or timeout
\* included) leaves every other call as it was: its re-broadcast loop, its
\* polling, its outcome, its transaction id and its slot.
C28_CallsAreIndependent ==
  [][\A c, d \in Calls :
       (c # d /\ calls[c].pc # "idle" /\ calls'[c] # calls[c])
       => calls'[d] = calls[d]]_vars

\* the first call has timed out; the second, with another transaction id,
\* is still re-broadcasting and has started its second poll
C28_Witness ==
  /\ calls[1].result = Rejected(TimeoutMessage)
  /\ calls[1].firstId = "sigA"
  /\ calls[2].firstId = "sigB"
  /\ ~Settled(2)
  /\ calls[2].resendAlive
  /\ calls[2].pollAlive
  /\ calls[2].pollAt = 2 * PollInterval
  /\ now = PollInterval

\* sendTransaction was called with awaitConfirmation and its
\* sendRawTransaction was accepted
SingleWaited == single.confirm /\ single.txid # NoTx

\* C29: sendTransaction called with awaitConfirmation settles whatever the
\* RPC collaborator does, a failing subscription setup included.  Stated on
\* finite runs: once the timer of DEFAULT_TIMEOUT has fired the call has
\* resolved or rejected; it has issued one sendRawTransaction and no
\* getSignatureStatuses, and it resolves only with its transaction id.
C29_SendTransactionSettles ==
  SingleWaited
  => /\ ~single.timerArmed => single.pc \in {"resolved", "rejected"}
     /\ single.submits = 1
     /\ single.polls = 0
     /\ single.pc = "resolved" => single.result.txid = single.txid

====
